---- MODULE Spec2Model ----
(***************************************************************************)
(* Habit-accountability backend: the habits, check_ins, ai_responses,      *)
(* partnerships, messages and notifications tables, the POST /api/checkins *)
(* and POST /api/habits handlers (step by step, one step per awaited store *)
(* call), habit update and archive, the reads of /api/checkins (history,   *)
(* today, streak) and of /api/analytics (overview, weekly, monthly), POST  *)
(* /api/ai/weekly-insight with the facts it hands to the text-generation   *)
(* service, the partnership routes (request, accept, decline, end) and     *)
(* POST /api/messages.                                                     *)
(*                                                                         *)
(* Calendar dates are day numbers (the server clock is read in UTC, so     *)
(* toISOString().split('T')[0] of "now" and of local midnight agree); day  *)
(* number 1 is 2023-01-01.  The specifications share the actions: Spec     *)
(* (habit lifecycle from an empty store), SpecRace (overlapping            *)
(* check-ins), SpecHist (the streak figures over stored histories),        *)
(* SpecSeq (check-ins one at a time), SpecMonth and SpecWeek (the monthly  *)
(* calendar and the weekly statistics over stored rows), SpecAi (the       *)
(* callers of the text-generation service), SpecAccess (reads by owner     *)
(* and non-owner), SpecPartner (the life cycle of partnerships), SpecMsg   *)
(* (messages against the end of a partnership) and SpecPartnerWeek (the    *)
(* partner's count of the weekly insight).                                 *)
(* The store is a plain table store: rows get a fresh primary key and no   *)
(* other uniqueness is enforced by it.  A .single() read yields the row    *)
(* when exactly one row matches and null otherwise.                        *)
(***************************************************************************)
EXTENDS Integers, Sequences, FiniteSets, TLC

VARIABLES habits, check_ins, ai_responses, today, reqs, resp,
          partnerships, messages, notifications, prompt

vars == <<habits, check_ins, ai_responses, today, reqs, resp,
          partnerships, messages, notifications, prompt>>

(* ------------------------------ bounds --------------------------------- *)
MaxDay == 2
MaxHabits == 2
MaxCheckIns == 1
MaxRaceCheckIns == 3
HistDays == 7
MaxBacklog == 100

(* ------------------------------ inputs --------------------------------- *)
Users == {"u1", "u2"}
Sessions == {"s1", "s2"}
Undefined == "undefined"
Null == "null"
NotesInputs == {Undefined, "", "felt good"}
LongName == "a name of 101 characters"
\* request bodies of POST /api/checkins: completed absent, true or false
CheckInBodies ==
  {[hasCompleted |-> FALSE, completed |-> FALSE],
   [hasCompleted |-> TRUE, completed |-> FALSE],
   [hasCompleted |-> TRUE, completed |-> TRUE]}
\* request bodies of POST /api/habits (start_date 0 = absent, else a day number)
CreateBodies ==
  {[habit_name |-> "run", category |-> "Health", start_date |-> 0],
   [habit_name |-> "run", category |-> "Health", start_date |-> 1],
   [habit_name |-> "", category |-> "Health", start_date |-> 0],
   [habit_name |-> LongName, category |-> "Health", start_date |-> 0],
   [habit_name |-> "run", category |-> "Bogus", start_date |-> 0]}
\* request bodies of PUT /api/habits/:id
UpdateBodies ==
  {[habit_name |-> "run", privacy_setting |-> Undefined],
   [habit_name |-> Undefined, privacy_setting |-> "private"],
   [habit_name |-> LongName, privacy_setting |-> Undefined],
   [habit_name |-> Undefined, privacy_setting |-> "bogus"]}
\* whether the text-generation service fails on a call
AiOutcomes == BOOLEAN
\* an exception leaving the AI service (caught by the caller's try/catch)
Thrown == "thrown"
\* a time of day, in minutes since midnight
Morning == 9 * 60

validCategories == {"Health", "Learning", "Creativity", "Productivity", "Wellness"}
validSettings == {"public", "partner-only", "private"}
MaxNameLength == 100
milestones == {7, 14, 30, 50, 100}

\* habit_name.length
NameLength(name) ==
  CASE name = "" -> 0
    [] name = "run" -> 3
    [] name = LongName -> 101

Idle == [op |-> "idle"]
NoResp == [op |-> "none"]

(* ------------------------------ store ---------------------------------- *)
\* rows of check_ins matching a filter, as row ids (positions in the table)
RowsOn(store, h, d) == {i \in DOMAIN store : store[i].habit_id = h /\ store[i].date = d}

CompletedRowsOn(store, h, d) == {i \in RowsOn(store, h, d) : store[i].completed}

RowsOf(store, h) == {i \in DOMAIN store : store[i].habit_id = h}

CompletedRowsOf(store, h) == {i \in RowsOf(store, h) : store[i].completed}

\* .single(): the row when exactly one matches, null (0) otherwise
Single(ids) == IF Cardinality(ids) = 1 THEN CHOOSE i \in ids : TRUE ELSE 0

\* habits  .eq('id', id).eq('user_id', user).single()
HabitOfUser(hs, id, user) == IF id \in DOMAIN hs /\ hs[id].user_id = user THEN id ELSE 0

\* habits  .eq('user_id', user).eq('is_active', true).single()
ActiveHabitsOf(hs, user) == {i \in DOMAIN hs : hs[i].user_id = user /\ hs[i].is_active}

\* notes || null
NotesOrNull(notes) == IF notes = Undefined \/ notes = "" THEN Null ELSE notes

(* the orders in which .order('date', {ascending: true}) can return rows:  *)
(* ascending by date, rows of equal date in any order                      *)
RECURSIVE OrderedByDate(_, _)
OrderedByDate(store, ids) ==
  IF ids = {} THEN {<<>>}
  ELSE LET firsts == {i \in ids : \A j \in ids : store[i].date <= store[j].date}
       IN UNION {{<<i>> \o t : t \in OrderedByDate(store, ids \ {i})} : i \in firsts}

(* --------------------------- streak helpers ---------------------------- *)
\* a walk that counts a day as soon as it has a row, completed or not
RECURSIVE calculateStreakFrom_AnyRow(_, _, _)
calculateStreakFrom_AnyRow(store, h, d) ==
  IF Single(RowsOn(store, h, d)) = 0 THEN 0
  ELSE 1 + calculateStreakFrom_AnyRow(store, h, d - 1)

\* calculateStreak: walk back from today while exactly one completed row exists
RECURSIVE calculateStreakFrom(_, _, _)
calculateStreakFrom(store, h, d) ==
  IF Single(CompletedRowsOn(store, h, d)) = 0 THEN 0
  ELSE 1 + calculateStreakFrom(store, h, d - 1)

calculateStreak(store, h, now) == calculateStreakFrom(store, h, now)

\* getLastSevenDays: data?.completed || false for today-6 .. today
getLastSevenDays(store, h, now) ==
  [k \in 1..7 |->
     LET row == Single(RowsOn(store, h, now - 7 + k))
     IN IF row = 0 THEN FALSE ELSE store[row].completed]

Max(a, b) == IF a >= b THEN a ELSE b

\* the loop without the Math.max that follows it: the final run is not counted
RECURSIVE streakLoop_NoFinalMax(_, _, _, _, _)
streakLoop_NoFinalMax(store, rows, k, longestStreak, currentCount) ==
  IF k > Len(rows) THEN longestStreak
  ELSE IF k = 1 THEN streakLoop_NoFinalMax(store, rows, 2, longestStreak, 1)
  ELSE LET daysDiff == store[rows[k]].date - store[rows[k - 1]].date
       IN IF daysDiff = 1
          THEN streakLoop_NoFinalMax(store, rows, k + 1, longestStreak, currentCount + 1)
          ELSE streakLoop_NoFinalMax(store, rows, k + 1, Max(longestStreak, currentCount), 1)

\* the longest-streak loop of GET /:habitId/streak over the ordered completed rows
RECURSIVE streakLoop(_, _, _, _, _)
streakLoop(store, rows, k, longestStreak, currentCount) ==
  IF k > Len(rows) THEN Max(longestStreak, currentCount)
  ELSE IF k = 1 THEN streakLoop(store, rows, 2, longestStreak, 1)
  ELSE LET daysDiff == store[rows[k]].date - store[rows[k - 1]].date
       IN IF daysDiff = 1
          THEN streakLoop(store, rows, k + 1, longestStreak, currentCount + 1)
          ELSE streakLoop(store, rows, k + 1, Max(longestStreak, currentCount), 1)

streakLongest(store, rows) == streakLoop(store, rows, 1, 0, 0)

\* current streak of GET /analytics/overview: find() any completed row per date
RECURSIVE overviewCurrentFrom(_, _, _)
overviewCurrentFrom(store, h, d) ==
  IF CompletedRowsOn(store, h, d) = {} THEN 0
  ELSE 1 + overviewCurrentFrom(store, h, d - 1)

\* the longest-streak loop of GET /analytics/overview over all ordered rows
RECURSIVE overviewLoop(_, _, _, _, _)
overviewLoop(store, rows, k, longestStreak, tempStreak) ==
  IF k > Len(rows) THEN longestStreak
  ELSE IF store[rows[k]].completed
       THEN overviewLoop(store, rows, k + 1, Max(longestStreak, tempStreak + 1), tempStreak + 1)
       ELSE overviewLoop(store, rows, k + 1, longestStreak, 0)

overviewLongest(store, rows) == overviewLoop(store, rows, 1, 0, 0)

\* a milestone on every seventh day
milestoneOf_EverySeventh(streak) == IF streak > 0 /\ streak % 7 = 0 THEN streak ELSE 0

\* milestones.includes(streak) ? `${streak}-day` : undefined  (0 = undefined, N = "N-day")
milestoneOf(streak) == IF streak \in milestones THEN streak ELSE 0

(* ------------------------------ Init ----------------------------------- *)
\* no prompt has been sent to the text-generation service yet
NoPrompt == [type |-> "none"]
\* the partnerships, messages and notifications tables start empty
NoPartnerData ==
  /\ partnerships = <<>>
  /\ messages = <<>>
  /\ notifications = <<>>
  /\ prompt = NoPrompt

Init ==
  /\ habits = <<>>
  /\ check_ins = <<>>
  /\ ai_responses = <<>>
  /\ today = 1
  /\ reqs = [s \in Sessions |-> Idle]
  /\ resp = NoResp
  /\ NoPartnerData

(* ------------------------ POST /api/checkins --------------------------- *)
InFlight(op) == Cardinality({s \in Sessions : reqs[s].op = op})

CheckInResp(status, row, path, streak, milestone, ai) ==
  [op |-> "checkin", status |-> status, row |-> row, path |-> path,
   streak |-> streak, milestone |-> milestone, ai |-> ai]

\* validation and the habit lookup; `today` and the time of day t are read when the
\* lookup returns
CheckInBegin(s, u, hid, hasCompleted, completed, notes, t, cap) ==
  /\ reqs[s] = Idle
  /\ Len(check_ins) + InFlight("checkin") < cap
  /\ IF hid = 0 \/ ~hasCompleted
     THEN /\ resp' = CheckInResp(400, 0, "none", 0, 0, Null)
          /\ UNCHANGED reqs
     ELSE IF HabitOfUser(habits, hid, u) = 0
     THEN /\ resp' = CheckInResp(404, 0, "none", 0, 0, Null)
          /\ UNCHANGED reqs
     ELSE /\ reqs' = [reqs EXCEPT ![s] =
                        [op |-> "checkin", pc |-> "lookup", user |-> u, habit_id |-> hid,
                         completed |-> completed, notes |-> notes, today |-> today,
                         checkInTime |-> t,
                         existing |-> 0, row |-> 0]]
          /\ UNCHANGED resp
  /\ UNCHANGED <<habits, check_ins, ai_responses, today, partnerships, messages, notifications, prompt>>

\* a lookup that matches the row of the day before
CheckInLookup_WrongDate(s) ==
  /\ reqs[s].op = "checkin" /\ reqs[s].pc = "lookup"
  /\ reqs' = [reqs EXCEPT ![s].pc = "write",
                          ![s].existing = Single(RowsOn(check_ins, reqs[s].habit_id, reqs[s].today - 1))]
  /\ UNCHANGED <<habits, check_ins, ai_responses, today, resp, partnerships, messages, notifications, prompt>>

\* "Check if already checked in today"
CheckInLookup(s) ==
  /\ reqs[s].op = "checkin" /\ reqs[s].pc = "lookup"
  /\ reqs' = [reqs EXCEPT ![s].pc = "write",
                          ![s].existing = Single(RowsOn(check_ins, reqs[s].habit_id, reqs[s].today))]
  /\ UNCHANGED <<habits, check_ins, ai_responses, today, resp, partnerships, messages, notifications, prompt>>

\* update of the existing row (and the response), or insert of a new row
CheckInWrite(s) ==
  LET r == reqs[s] IN
  /\ r.op = "checkin" /\ r.pc = "write"
  /\ IF r.existing # 0
     THEN /\ check_ins' = [check_ins EXCEPT ![r.existing].completed = r.completed,
                                            ![r.existing].check_in_time = r.checkInTime,
                                            ![r.existing].notes = NotesOrNull(r.notes)]
          /\ resp' = CheckInResp(200, r.existing, "update", 0, 0, Null)
          /\ reqs' = [reqs EXCEPT ![s] = Idle]
     ELSE /\ check_ins' = Append(check_ins,
                                 [habit_id |-> r.habit_id, user_id |-> r.user, date |-> r.today,
                                  completed |-> r.completed, check_in_time |-> r.checkInTime,
                                  notes |-> NotesOrNull(r.notes)])
          /\ reqs' = [reqs EXCEPT ![s].pc = "after", ![s].row = Len(check_ins) + 1]
          /\ UNCHANGED resp
  /\ UNCHANGED <<habits, ai_responses, today, partnerships, messages, notifications, prompt>>

\* the service call with the error passed on to the caller
callGemini_Rethrow(serviceFails) ==
  IF serviceFails THEN Thrown ELSE "generated text"

\* callGemini: the text of the service, or the fallback message of its catch block
callGemini(serviceFails) ==
  IF serviceFails THEN "fallback text" ELSE "generated text"

\* the facts handed to getEncouragementMessage (completed) or to
\* getStreakBreakSupport (not completed) by POST /api/checkins
checkInPrompt(r, streak, milestone) ==
  IF r.completed
  THEN [type |-> "encouragement", habit_id |-> r.habit_id, streakLength |-> streak,
        lastSevenDays |-> getLastSevenDays(check_ins, r.habit_id, today),
        dayOfWeek |-> (today - 1) % 7, milestone |-> milestone]
  ELSE [type |-> "streak-break", habit_id |-> r.habit_id, brokenStreakLength |-> streak,
        totalDaysActive |-> Cardinality(CompletedRowsOf(check_ins, r.habit_id)),
        previousLongestStreak |-> streak]

\* the insert path with the text left out when the service has failed
CheckInAfter_OmitOnFailure(s, aiOutcomes) ==
  LET r == reqs[s]
      streak == calculateStreak(check_ins, r.habit_id, today)
      milestone == milestoneOf(streak)
  IN
  /\ r.op = "checkin" /\ r.pc = "after"
  /\ \E serviceFails \in aiOutcomes :
       LET aiMessage == callGemini(serviceFails) IN
       IF serviceFails
       THEN /\ ai_responses' = ai_responses
            /\ resp' = CheckInResp(200, r.row, "insert", streak,
                                   IF r.completed THEN milestone ELSE 0, Null)
       ELSE /\ ai_responses' = Append(ai_responses,
                 IF r.completed
                 THEN [user_id |-> r.user, response_type |-> "post-checkin", habit_id |-> r.habit_id,
                       streak |-> streak, milestone |-> milestone, ai_message |-> aiMessage]
                 ELSE [user_id |-> r.user, response_type |-> "streak-break", habit_id |-> r.habit_id,
                       streak |-> streak, milestone |-> 0, ai_message |-> aiMessage])
            /\ resp' = CheckInResp(200, r.row, "insert", streak,
                                   IF r.completed THEN milestone ELSE 0, aiMessage)
  /\ prompt' = checkInPrompt(r, streak, milestone)
  /\ reqs' = [reqs EXCEPT ![s] = Idle]
  /\ UNCHANGED <<habits, check_ins, today, partnerships, messages, notifications>>

\* after an insert: streak, milestone, AI text, ai_responses row, response; an
\* exception of the AI call is caught and the record is returned without a text
CheckInAfter(s, aiOutcomes) ==
  LET r == reqs[s]
      streak == calculateStreak(check_ins, r.habit_id, today)
      milestone == milestoneOf(streak)
  IN
  /\ r.op = "checkin" /\ r.pc = "after"
  /\ \E serviceFails \in aiOutcomes :
       LET aiMessage == callGemini(serviceFails) IN
       IF aiMessage = Thrown
       THEN /\ ai_responses' = ai_responses
            /\ resp' = CheckInResp(200, r.row, "insert", streak,
                                   IF r.completed THEN milestone ELSE 0, Null)
       ELSE /\ ai_responses' = Append(ai_responses,
                 IF r.completed
                 THEN [user_id |-> r.user, response_type |-> "post-checkin", habit_id |-> r.habit_id,
                       streak |-> streak, milestone |-> milestone, ai_message |-> aiMessage]
                 ELSE [user_id |-> r.user, response_type |-> "streak-break", habit_id |-> r.habit_id,
                       streak |-> streak, milestone |-> 0, ai_message |-> aiMessage])
            /\ resp' = CheckInResp(200, r.row, "insert", streak,
                                   IF r.completed THEN milestone ELSE 0, aiMessage)
  /\ prompt' = checkInPrompt(r, streak, milestone)
  /\ reqs' = [reqs EXCEPT ![s] = Idle]
  /\ UNCHANGED <<habits, check_ins, today, partnerships, messages, notifications>>

(* -------------------------- POST /api/habits --------------------------- *)
HabitResp(op, status, id) == [op |-> op, status |-> status, id |-> id]

\* validation and the active-habit lookup
HabitBegin(s, u, name, category, start_date, cap) ==
  /\ reqs[s] = Idle
  /\ Len(habits) + InFlight("habit") < cap
  /\ IF name = "" \/ category = ""
        \/ NameLength(name) > MaxNameLength
        \/ category \notin validCategories
        \/ Single(ActiveHabitsOf(habits, u)) # 0
     THEN /\ resp' = HabitResp("createHabit", 400, 0)
          /\ UNCHANGED reqs
     ELSE /\ reqs' = [reqs EXCEPT ![s] =
                        [op |-> "habit", pc |-> "insert", user |-> u, habit_name |-> name,
                         category |-> category, start_date |-> start_date]]
          /\ UNCHANGED resp
  /\ UNCHANGED <<habits, check_ins, ai_responses, today, partnerships, messages, notifications, prompt>>

HabitInsert(s) ==
  LET r == reqs[s] IN
  /\ r.op = "habit" /\ r.pc = "insert"
  /\ habits' = Append(habits,
                      [user_id |-> r.user, habit_name |-> r.habit_name, category |-> r.category,
                       start_date |-> IF r.start_date = 0 THEN today ELSE r.start_date,
                       privacy_setting |-> "partner-only", is_active |-> TRUE, archived_at |-> 0])
  /\ resp' = HabitResp("createHabit", 201, Len(habits) + 1)
  /\ reqs' = [reqs EXCEPT ![s] = Idle]
  /\ UNCHANGED <<check_ins, ai_responses, today, partnerships, messages, notifications, prompt>>

(* --------------------------- PUT /api/habits/:id ----------------------- *)
\* an update that also writes is_active = true
UpdateHabit_Reactivate(u, id, name, privacy) ==
  IF HabitOfUser(habits, id, u) = 0
  THEN /\ resp' = HabitResp("updateHabit", 404, 0)
       /\ UNCHANGED <<habits, check_ins, ai_responses, today, reqs, partnerships, messages, notifications, prompt>>
  ELSE /\ habits' = [habits EXCEPT ![id].is_active = TRUE]
       /\ resp' = HabitResp("updateHabit", 200, id)
       /\ UNCHANGED <<check_ins, ai_responses, today, reqs, partnerships, messages, notifications, prompt>>

UpdateHabit(u, id, name, privacy) ==
  IF HabitOfUser(habits, id, u) = 0
  THEN /\ resp' = HabitResp("updateHabit", 404, 0)
       /\ UNCHANGED <<habits, check_ins, ai_responses, today, reqs, partnerships, messages, notifications, prompt>>
  ELSE IF (name # Undefined /\ NameLength(name) > MaxNameLength)
          \/ (privacy # Undefined /\ privacy \notin validSettings)
  THEN /\ resp' = HabitResp("updateHabit", 400, 0)
       /\ UNCHANGED <<habits, check_ins, ai_responses, today, reqs, partnerships, messages, notifications, prompt>>
  ELSE /\ habits' = [habits EXCEPT
                       ![id].habit_name = IF name # Undefined THEN name ELSE @,
                       ![id].privacy_setting = IF privacy # Undefined THEN privacy ELSE @]
       /\ resp' = HabitResp("updateHabit", 200, id)
       /\ UNCHANGED <<check_ins, ai_responses, today, reqs, partnerships, messages, notifications, prompt>>

(* ------------------------ POST /api/habits/:id/archive ----------------- *)
ArchiveHabit(u, id) ==
  IF HabitOfUser(habits, id, u) = 0
  THEN /\ resp' = HabitResp("archiveHabit", 404, 0)
       /\ UNCHANGED <<habits, check_ins, ai_responses, today, reqs, partnerships, messages, notifications, prompt>>
  ELSE /\ habits' = [habits EXCEPT ![id].is_active = FALSE, ![id].archived_at = today]
       /\ resp' = HabitResp("archiveHabit", 200, id)
       /\ UNCHANGED <<check_ins, ai_responses, today, reqs, partnerships, messages, notifications, prompt>>

(* -------------------- GET /api/checkins/:habitId/streak ---------------- *)
GetStreak(u, hid) ==
  /\ IF HabitOfUser(habits, hid, u) = 0
     THEN resp' = [op |-> "streak", status |-> 404, user |-> u, habit_id |-> hid]
     ELSE \E rows \in OrderedByDate(check_ins, CompletedRowsOf(check_ins, hid)) :
            resp' = [op |-> "streak", status |-> 200, user |-> u, habit_id |-> hid,
                     current_streak |-> calculateStreak(check_ins, hid, today),
                     longest_streak |-> streakLongest(check_ins, rows),
                     total_checkins |-> Cardinality(CompletedRowsOf(check_ins, hid)),
                     last_seven_days |-> getLastSevenDays(check_ins, hid, today)]
  /\ UNCHANGED <<habits, check_ins, ai_responses, today, reqs, partnerships, messages, notifications, prompt>>

(* ----------------------- GET /api/analytics/overview ------------------- *)
\* the rate cut off after two decimals instead of rounded
successRate100_Floor(completedCount, totalDays) ==
  IF totalDays > 0 THEN (completedCount * 10000) \div totalDays ELSE 0

\* Math.round(successRate * 100) / 100, held in hundredths of a percent
successRate100(completedCount, totalDays) ==
  IF totalDays > 0 THEN (2 * completedCount * 10000 + totalDays) \div (2 * totalDays) ELSE 0

GetOverview(u, hid) ==
  /\ IF hid = 0
     THEN resp' = [op |-> "overview", status |-> 400, user |-> u, habit_id |-> hid]
     ELSE IF HabitOfUser(habits, hid, u) = 0
     THEN resp' = [op |-> "overview", status |-> 404, user |-> u, habit_id |-> hid]
     ELSE \E rows \in OrderedByDate(check_ins, RowsOf(check_ins, hid)) :
            resp' = [op |-> "overview", status |-> 200, user |-> u, habit_id |-> hid,
                     current_streak |-> overviewCurrentFrom(check_ins, hid, today),
                     longest_streak |-> overviewLongest(check_ins, rows),
                     total_checkins |-> Cardinality(CompletedRowsOf(check_ins, hid)),
                     success_rate |-> successRate100(Cardinality(CompletedRowsOf(check_ins, hid)),
                                                     Cardinality(RowsOf(check_ins, hid))),
                     days_since_started |-> today - habits[hid].start_date]
  /\ UNCHANGED <<habits, check_ins, ai_responses, today, reqs, partnerships, messages, notifications, prompt>>

(* ----------------------- GET /api/checkins/:habitId -------------------- *)
\* .order('date', { ascending: false })
Reverse(seq) == [k \in 1..Len(seq) |-> seq[Len(seq) + 1 - k]]

GetHistory(u, hid) ==
  /\ IF HabitOfUser(habits, hid, u) = 0
     THEN resp' = [op |-> "history", status |-> 404, user |-> u, habit_id |-> hid]
     ELSE \E rows \in OrderedByDate(check_ins, RowsOf(check_ins, hid)) :
            resp' = [op |-> "history", status |-> 200, user |-> u, habit_id |-> hid,
                     data |-> [k \in 1..Len(rows) |-> check_ins[Reverse(rows)[k]]]]
  /\ UNCHANGED <<habits, check_ins, ai_responses, today, reqs, partnerships, messages, notifications, prompt>>

(* -------------------- GET /api/checkins/:habitId/today ----------------- *)
\* res.json(data || null): the row of today (0 = null), read without a habit lookup
GetToday(u, hid) ==
  /\ LET row == Single(RowsOn(check_ins, hid, today))
     IN resp' = [op |-> "today", status |-> 200, user |-> u, habit_id |-> hid, row |-> row,
                 completed |-> IF row = 0 THEN FALSE ELSE check_ins[row].completed]
  /\ UNCHANGED <<habits, check_ins, ai_responses, today, reqs, partnerships, messages, notifications, prompt>>

(* ------------------------------ the calendar --------------------------- *)
(* Day number 1 is 2023-01-01, a Sunday.  new Date(y, m, d) carries a month *)
(* index or a day outside its range into the neighbouring month or year.    *)
CalendarYears == 2022..2025

IsLeap(y) == (y % 4 = 0 /\ y % 100 # 0) \/ y % 400 = 0

DaysInYear(y) == IF IsLeap(y) THEN 366 ELSE 365

DaysInMonth(y, m) ==
  IF m = 2 THEN (IF IsLeap(y) THEN 29 ELSE 28)
  ELSE IF m \in {4, 6, 9, 11} THEN 30 ELSE 31

RECURSIVE DaysBeforeYear(_)
DaysBeforeYear(y) ==
  IF y = 2023 THEN 0
  ELSE IF y > 2023 THEN DaysBeforeYear(y - 1) + DaysInYear(y - 1)
  ELSE DaysBeforeYear(y + 1) - DaysInYear(y)

RECURSIVE DaysBeforeMonth(_, _)
DaysBeforeMonth(y, m) ==
  IF m = 1 THEN 0 ELSE DaysBeforeMonth(y, m - 1) + DaysInMonth(y, m - 1)

\* the day before the first of each month, tabulated
MonthStart ==
  [y \in CalendarYears |-> [m \in 1..12 |-> DaysBeforeYear(y) + DaysBeforeMonth(y, m)]]

\* new Date(year, monthIndex, day), monthIndex counted from 0
NewDate(year, monthIndex, day) ==
  MonthStart[year + (monthIndex \div 12)][(monthIndex % 12) + 1] + day

CalendarDays == NewDate(2022, 0, 1)..NewDate(2025, 11, 31)

\* the year and the month (1..12) of each day number, tabulated
DateParts ==
  [n \in CalendarDays |->
     CHOOSE p \in CalendarYears \X (1..12) :
       MonthStart[p[1]][p[2]] < n /\ n <= MonthStart[p[1]][p[2]] + DaysInMonth(p[1], p[2])]

getFullYear(n) == DateParts[n][1]

\* getMonth() + 1
getMonth1(n) == DateParts[n][2]

getDate(n) == n - MonthStart[getFullYear(n)][getMonth1(n)]

\* getDay(): 0 = Sunday .. 6 = Saturday
getDay(n) == (n - 1) % 7

(* ------------------ GET /api/analytics/monthly/:year/:month ------------ *)
\* the rows of a query without an order clause, in any order
RECURSIVE AnyOrder(_)
AnyOrder(ids) ==
  IF ids = {} THEN {<<>>}
  ELSE UNION {{<<i>> \o s : s \in AnyOrder(ids \ {i})} : i \in ids}

\* checkIns.find(c => c.date === dateStr): the first row of the result on that date (0 = none)
findOnDate(store, rows, d) ==
  LET hits == {k \in DOMAIN rows : store[rows[k]].date = d}
  IN IF hits = {} THEN 0 ELSE rows[CHOOSE k \in hits : \A j \in hits : k <= j]

\* an entry that ignores the habit's start date
calendarEntry_NoStart(store, rows, habitStartDate, now, date) ==
  IF date > now THEN [completed |-> FALSE, status |-> "future"]
  ELSE LET checkIn == findOnDate(store, rows, date)
       IN IF checkIn # 0
          THEN [completed |-> store[checkIn].completed,
                status |-> IF store[checkIn].completed THEN "completed" ELSE "missed"]
          ELSE [completed |-> FALSE, status |-> "missed"]

calendarEntry(store, rows, habitStartDate, now, date) ==
  IF date < habitStartDate THEN [completed |-> FALSE, status |-> "future"]
  ELSE IF date > now THEN [completed |-> FALSE, status |-> "future"]
  ELSE LET checkIn == findOnDate(store, rows, date)
       IN IF checkIn # 0
          THEN [completed |-> store[checkIn].completed,
                status |-> IF store[checkIn].completed THEN "completed" ELSE "missed"]
          ELSE [completed |-> FALSE, status |-> "missed"]

\* year and month are the numbers parseInt has read from the path
GetMonthly(u, hid, year, month) ==
  /\ IF hid = 0
     THEN resp' = [op |-> "monthly", status |-> 400, user |-> u, habit_id |-> hid,
                   numeric |-> TRUE]
     ELSE LET startDate == NewDate(year, month - 1, 1)
              endDate == NewDate(year, month, 0)
              ids == {i \in RowsOf(check_ins, hid) :
                        check_ins[i].date >= startDate /\ check_ins[i].date <= endDate}
              habitStartDate == IF hid \in DOMAIN habits THEN habits[hid].start_date ELSE startDate
              days == {NewDate(year, month - 1, day) : day \in 1..getDate(endDate)}
          IN \E rows \in AnyOrder(ids) :
               LET calendar == [d \in days |-> calendarEntry(check_ins, rows, habitStartDate, today, d)]
                   completedDays ==
                     Cardinality({d \in days :
                       calendarEntry(check_ins, rows, habitStartDate, today, d).status = "completed"})
               IN resp' = [op |-> "monthly", status |-> 200, user |-> u, habit_id |-> hid,
                           numeric |-> TRUE,
                           year |-> year, month |-> month, calendar |-> calendar,
                           total_days |-> Cardinality(days), completed_days |-> completedDays,
                           success_rate |-> successRate100(completedDays, Cardinality(days))]
  /\ UNCHANGED <<habits, check_ins, ai_responses, today, reqs, partnerships, messages, notifications, prompt>>

\* a year or a month that parseInt reads as NaN: startDate is an invalid Date,
\* its toISOString() throws and the handler's catch block answers 500
GetMonthlyNaN(u, hid) ==
  /\ resp' = [op |-> "monthly", status |-> IF hid = 0 THEN 400 ELSE 500,
              user |-> u, habit_id |-> hid, numeric |-> FALSE]
  /\ UNCHANGED <<habits, check_ins, ai_responses, today, reqs,
                 partnerships, messages, notifications, prompt>>

(* ----------------------- GET /api/analytics/weekly --------------------- *)
dayNames == <<"Monday", "Tuesday", "Wednesday", "Thursday", "Friday", "Saturday", "Sunday">>

\* dayNames[date.getDay()], the array being indexed from 0
dayNameOf(date) == dayNames[getDay(date) + 1]

\* the rows of a habit from weekStart to today, both included
WeekRows(store, h, now) ==
  {i \in RowsOf(store, h) : store[i].date >= now - 6 /\ store[i].date <= now}

RECURSIVE checkInTimeSum(_, _)
checkInTimeSum(store, ids) ==
  IF ids = {} THEN 0
  ELSE LET i == CHOOSE j \in ids : TRUE
       IN store[i].check_in_time + checkInTimeSum(store, ids \ {i})

dayStatsOf(store, ids) ==
  [name \in {dayNames[k] : k \in 1..7} |->
     [completed |-> Cardinality({i \in ids : dayNameOf(store[i].date) = name /\ store[i].completed}),
      total |-> Cardinality({i \in ids : dayNameOf(store[i].date) = name})]]

\* the loop with ratio >= bestRatio
RECURSIVE bestDayLoop_LastTie(_, _, _, _, _)
bestDayLoop_LastTie(stats, k, bestDay, bestNum, bestDen) ==
  IF k > 7 THEN bestDay
  ELSE LET day == dayNames[k]
           num == stats[day].completed
           den == IF stats[day].total > 0 THEN stats[day].total ELSE 1
       IN IF num * bestDen >= bestNum * den
          THEN bestDayLoop_LastTie(stats, k + 1, day, num, den)
          ELSE bestDayLoop_LastTie(stats, k + 1, bestDay, bestNum, bestDen)

\* for (const [day, stats] of Object.entries(dayStats)): the ratio completed/total
\* (0 when total is 0) is held as the fraction num/den
RECURSIVE bestDayLoop(_, _, _, _, _)
bestDayLoop(stats, k, bestDay, bestNum, bestDen) ==
  IF k > 7 THEN bestDay
  ELSE LET day == dayNames[k]
           num == stats[day].completed
           den == IF stats[day].total > 0 THEN stats[day].total ELSE 1
       IN IF num * bestDen > bestNum * den
          THEN bestDayLoop(stats, k + 1, day, num, den)
          ELSE bestDayLoop(stats, k + 1, bestDay, bestNum, bestDen)

\* avgMinutes = sum / count; Math.floor(avgMinutes / 60) and Math.round(avgMinutes % 60),
\* absent unless avgMinutes > 0
avgTimeOf(sum, count) ==
  IF count > 0 /\ sum > 0
  THEN [present |-> TRUE, hours |-> sum \div (60 * count),
        mins |-> (2 * (sum % (60 * count)) + count) \div (2 * count)]
  ELSE [present |-> FALSE, hours |-> 0, mins |-> 0]

\* the score cut off instead of rounded
consistencyScoreOf_Floor(completedDays, totalDays) ==
  IF totalDays > 0 THEN (100 * completedDays) \div totalDays ELSE 0

\* totalDays > 0 ? Math.round((completedDays / totalDays) * 100) : 0
consistencyScoreOf(completedDays, totalDays) ==
  IF totalDays > 0 THEN (200 * completedDays + totalDays) \div (2 * totalDays) ELSE 0

GetWeekly(u, hid) ==
  /\ IF hid = 0
     THEN resp' = [op |-> "weekly", status |-> 400, user |-> u, habit_id |-> hid]
     ELSE LET ids == WeekRows(check_ins, hid, today)
              done == {i \in ids : check_ins[i].completed}
              dayStats == dayStatsOf(check_ins, ids)
          IN resp' = [op |-> "weekly", status |-> 200, user |-> u, habit_id |-> hid,
                      day_stats |-> dayStats,
                      best_day |-> bestDayLoop(dayStats, 1, "Monday", 0, 1),
                      average_checkin_time |->
                        avgTimeOf(checkInTimeSum(check_ins, done), Cardinality(done)),
                      consistency_score |->
                        consistencyScoreOf(Cardinality(done), Cardinality(ids))]
  /\ UNCHANGED <<habits, check_ins, ai_responses, today, reqs, partnerships, messages, notifications, prompt>>

(* ----------------------- POST /api/ai/weekly-insight ------------------- *)
\* weekCheckIns: for each date of the week, completed of the first row found on it
weekCheckInsOf(store, rows, now) ==
  [i \in 1..7 |-> LET checkIn == findOnDate(store, rows, now - 7 + i)
                  IN IF checkIn = 0 THEN FALSE ELSE store[checkIn].completed]

\* the best-day / worst-day loop over dayCounts, whose keys are in the order of the
\* week's dates; every weekday name occurs once, so a ratio is 1 or 0
RECURSIVE insightDays(_, _, _, _, _, _, _)
insightDays(week, now, k, bestDay, bestRatio, worstDay, worstRatio) ==
  IF k > 7 THEN [bestDay |-> bestDay, worstDay |-> worstDay]
  ELSE LET day == dayNameOf(now - 7 + k)
           ratio == IF week[k] THEN 1 ELSE 0
       IN insightDays(week, now, k + 1,
                      IF ratio > bestRatio THEN day ELSE bestDay,
                      IF ratio > bestRatio THEN ratio ELSE bestRatio,
                      IF ratio < worstRatio THEN day ELSE worstDay,
                      IF ratio < worstRatio THEN ratio ELSE worstRatio)

\* the other party of a partnership
partnerOf(p, u) == IF p.requester_id = u THEN p.receiver_id ELSE p.requester_id

\* partnerships  .or(requester_id.eq.u, receiver_id.eq.u).eq('status', 'accepted')
AcceptedOf(store, u) ==
  {i \in DOMAIN store :
     (store[i].requester_id = u \/ store[i].receiver_id = u) /\ store[i].status = "accepted"}

\* the partner's count: rows of check_ins of the partner (any habit) in the week
\* that are completed; 0 when .single() finds no partnership
partnerCheckInsOf(u, now) ==
  LET partnership == Single(AcceptedOf(partnerships, u))
  IN IF partnership = 0 THEN 0
     ELSE Cardinality({i \in DOMAIN check_ins :
                         /\ check_ins[i].user_id = partnerOf(partnerships[partnership], u)
                         /\ check_ins[i].date >= now - 6 /\ check_ins[i].date <= now
                         /\ check_ins[i].completed})

\* checkInTimes: check_in_time of the first row found on each date, -1 for 'skip'
checkInTimesOf(store, rows, now) ==
  [i \in 1..7 |-> LET checkIn == findOnDate(store, rows, now - 7 + i)
                  IN IF checkIn = 0 THEN -1 ELSE store[checkIn].check_in_time]

\* an exception of the AI call reaches the handler's catch block (status 500)
WeeklyInsight(u, hid, aiOutcomes, cap) ==
  /\ Len(ai_responses) < cap
  /\ IF hid = 0
     THEN /\ resp' = [op |-> "insight", status |-> 400, user |-> u, habit_id |-> hid]
          /\ UNCHANGED <<ai_responses, prompt>>
     ELSE IF HabitOfUser(habits, hid, u) = 0
     THEN /\ resp' = [op |-> "insight", status |-> 404, user |-> u, habit_id |-> hid]
          /\ UNCHANGED <<ai_responses, prompt>>
     ELSE \E rows \in OrderedByDate(check_ins, WeekRows(check_ins, hid, today)),
             serviceFails \in aiOutcomes :
            LET weekCheckIns == weekCheckInsOf(check_ins, rows, today)
                days == insightDays(weekCheckIns, today, 1, "Monday", 0, "Monday", 1)
                aiMessage == callGemini(serviceFails)
            IN /\ prompt' = [type |-> "weekly-insight", habit_id |-> hid,
                             weekCheckIns |-> weekCheckIns, bestDay |-> days.bestDay,
                             worstDay |-> days.worstDay,
                             checkInTimes |-> checkInTimesOf(check_ins, rows, today),
                             partnerCheckIns |-> partnerCheckInsOf(u, today)]
               /\ IF aiMessage = Thrown
                  THEN /\ resp' = [op |-> "insight", status |-> 500, user |-> u, habit_id |-> hid]
                       /\ UNCHANGED ai_responses
                  ELSE /\ ai_responses' = Append(ai_responses,
                            [user_id |-> u, response_type |-> "weekly-insight", habit_id |-> hid,
                             weekCheckIns |-> weekCheckIns, bestDay |-> days.bestDay,
                             worstDay |-> days.worstDay, ai_message |-> aiMessage])
                       /\ resp' = [op |-> "insight", status |-> 200, user |-> u, habit_id |-> hid,
                                   message |-> aiMessage]
  /\ UNCHANGED <<habits, check_ins, today, reqs, partnerships, messages, notifications>>

(* --------------------------- /api/partnerships ------------------------- *)
\* a partnerships row; its id is its position in the table
PartnershipRow(requester, receiver, message, status) ==
  [requester_id |-> requester, receiver_id |-> receiver,
   request_message |-> NotesOrNull(message), status |-> status]

\* POST /api/partnerships: the tests of the body
PartnerBegin(s, u, receiver_id, request_message, cap) ==
  /\ reqs[s] = Idle
  /\ Len(partnerships) + InFlight("partner") < cap
  /\ IF receiver_id = Undefined \/ receiver_id = u
     THEN /\ resp' = [op |-> "partner", status |-> 400, user |-> u, id |-> 0]
          /\ UNCHANGED reqs
     ELSE /\ reqs' = [reqs EXCEPT ![s] =
                        [op |-> "partner", pc |-> "active", user |-> u, id |-> 0,
                         receiver_id |-> receiver_id, request_message |-> request_message]]
          /\ UNCHANGED resp
  /\ UNCHANGED <<habits, check_ins, ai_responses, today,
                 partnerships, messages, notifications, prompt>>

\* "Check if user already has an active partnership"
PartnerLookupActive(s) ==
  LET r == reqs[s] IN
  /\ r.op = "partner" /\ r.pc = "active"
  /\ IF Single(AcceptedOf(partnerships, r.user)) # 0
     THEN /\ resp' = [op |-> "partner", status |-> 400, user |-> r.user, id |-> 0]
          /\ reqs' = [reqs EXCEPT ![s] = Idle]
     ELSE /\ reqs' = [reqs EXCEPT ![s].pc = "pending"]
          /\ UNCHANGED resp
  /\ UNCHANGED <<habits, check_ins, ai_responses, today,
                 partnerships, messages, notifications, prompt>>

\* "Check if request already exists"
PartnerLookupPending(s) ==
  LET r == reqs[s]
      existingRequest ==
        Single({i \in DOMAIN partnerships :
                  /\ partnerships[i].requester_id = r.user
                  /\ partnerships[i].receiver_id = r.receiver_id
                  /\ partnerships[i].status = "pending"})
  IN
  /\ r.op = "partner" /\ r.pc = "pending"
  /\ IF existingRequest # 0
     THEN /\ resp' = [op |-> "partner", status |-> 400, user |-> r.user, id |-> 0]
          /\ reqs' = [reqs EXCEPT ![s] = Idle]
     ELSE /\ reqs' = [reqs EXCEPT ![s].pc = "insert"]
          /\ UNCHANGED resp
  /\ UNCHANGED <<habits, check_ins, ai_responses, today,
                 partnerships, messages, notifications, prompt>>

\* the insert of the pending row
PartnerInsert(s) ==
  LET r == reqs[s] IN
  /\ r.op = "partner" /\ r.pc = "insert"
  /\ partnerships' = Append(partnerships,
                            PartnershipRow(r.user, r.receiver_id, r.request_message, "pending"))
  /\ reqs' = [reqs EXCEPT ![s].pc = "notify", ![s].id = Len(partnerships) + 1]
  /\ UNCHANGED <<habits, check_ins, ai_responses, today, resp, messages, notifications, prompt>>

\* the notification for the receiver, and the response
PartnerNotify(s) ==
  LET r == reqs[s] IN
  /\ r.op = "partner" /\ r.pc = "notify"
  /\ notifications' = Append(notifications,
                             [user_id |-> r.receiver_id, type |-> "partner-request",
                              title |-> "New Partnership Request"])
  /\ resp' = [op |-> "partner", status |-> 201, user |-> r.user, id |-> r.id]
  /\ reqs' = [reqs EXCEPT ![s] = Idle]
  /\ UNCHANGED <<habits, check_ins, ai_responses, today, partnerships, messages, prompt>>

\* partnerships  .eq('id', id).eq('receiver_id', u).eq('status', 'pending').single()
PendingFor(store, id, u) ==
  IF id \in DOMAIN store /\ store[id].receiver_id = u /\ store[id].status = "pending"
  THEN id ELSE 0

\* partnerships  .eq('id', id).or(requester_id.eq.u, receiver_id.eq.u)
\*               .eq('status', 'accepted').single()
AcceptedFor(store, id, u) == IF id \in AcceptedOf(store, u) THEN id ELSE 0

\* PUT /api/partnerships/:id/accept: the read of the pending request
AcceptBegin(s, u, id) ==
  /\ reqs[s] = Idle
  /\ IF PendingFor(partnerships, id, u) = 0
     THEN /\ resp' = [op |-> "accept", status |-> 404, user |-> u, id |-> id]
          /\ UNCHANGED reqs
     ELSE /\ reqs' = [reqs EXCEPT ![s] =
                        [op |-> "accept", pc |-> "update", user |-> u, id |-> id,
                         requester_id |-> partnerships[id].requester_id]]
          /\ UNCHANGED resp
  /\ UNCHANGED <<habits, check_ins, ai_responses, today,
                 partnerships, messages, notifications, prompt>>

\* update({status: 'accepted'}).eq('id', id)
AcceptUpdate(s) ==
  LET r == reqs[s] IN
  /\ r.op = "accept" /\ r.pc = "update"
  /\ partnerships' = [partnerships EXCEPT ![r.id].status = "accepted"]
  /\ reqs' = [reqs EXCEPT ![s].pc = "notify"]
  /\ UNCHANGED <<habits, check_ins, ai_responses, today, resp, messages, notifications, prompt>>

\* the notification for the requester, and the response
AcceptNotify(s) ==
  LET r == reqs[s] IN
  /\ r.op = "accept" /\ r.pc = "notify"
  /\ notifications' = Append(notifications,
                             [user_id |-> r.requester_id, type |-> "partner-request",
                              title |-> "Partnership Accepted!"])
  /\ resp' = [op |-> "accept", status |-> 200, user |-> r.user, id |-> r.id]
  /\ reqs' = [reqs EXCEPT ![s] = Idle]
  /\ UNCHANGED <<habits, check_ins, ai_responses, today, partnerships, messages, prompt>>

\* PUT /api/partnerships/:id/decline: the read of the pending request
DeclineBegin(s, u, id) ==
  /\ reqs[s] = Idle
  /\ IF PendingFor(partnerships, id, u) = 0
     THEN /\ resp' = [op |-> "decline", status |-> 404, user |-> u, id |-> id]
          /\ UNCHANGED reqs
     ELSE /\ reqs' = [reqs EXCEPT ![s] =
                        [op |-> "decline", pc |-> "update", user |-> u, id |-> id]]
          /\ UNCHANGED resp
  /\ UNCHANGED <<habits, check_ins, ai_responses, today,
                 partnerships, messages, notifications, prompt>>

\* update({status: 'declined'}).eq('id', id), and the response
DeclineUpdate(s) ==
  LET r == reqs[s] IN
  /\ r.op = "decline" /\ r.pc = "update"
  /\ partnerships' = [partnerships EXCEPT ![r.id].status = "declined"]
  /\ resp' = [op |-> "decline", status |-> 200, user |-> r.user, id |-> r.id]
  /\ reqs' = [reqs EXCEPT ![s] = Idle]
  /\ UNCHANGED <<habits, check_ins, ai_responses, today, messages, notifications, prompt>>

\* DELETE /api/partnerships/:id: the read of the accepted partnership
EndBegin(s, u, id) ==
  /\ reqs[s] = Idle
  /\ IF AcceptedFor(partnerships, id, u) = 0
     THEN /\ resp' = [op |-> "end", status |-> 404, user |-> u, id |-> id]
          /\ UNCHANGED reqs
     ELSE /\ reqs' = [reqs EXCEPT ![s] =
                        [op |-> "end", pc |-> "update", user |-> u, id |-> id]]
          /\ UNCHANGED resp
  /\ UNCHANGED <<habits, check_ins, ai_responses, today,
                 partnerships, messages, notifications, prompt>>

\* update({status: 'ended'}).eq('id', id), and the response
EndUpdate(s) ==
  LET r == reqs[s] IN
  /\ r.op = "end" /\ r.pc = "update"
  /\ partnerships' = [partnerships EXCEPT ![r.id].status = "ended"]
  /\ resp' = [op |-> "end", status |-> 200, user |-> r.user, id |-> r.id]
  /\ reqs' = [reqs EXCEPT ![s] = Idle]
  /\ UNCHANGED <<habits, check_ins, ai_responses, today, messages, notifications, prompt>>

(* ----------------------------- /api/messages --------------------------- *)
MaxMessageLength == 200
LongText == "a text of 201 characters"
MessageTexts == {Undefined, "", "keep going", LongText}

\* message_text.length
TextLength(text) ==
  CASE text = "" -> 0
    [] text = "keep going" -> 10
    [] text = LongText -> 201

\* POST /api/messages: the tests of the body (partnership_id 0 = absent)
SendBegin(s, u, partnership_id, message_text, cap) ==
  /\ reqs[s] = Idle
  /\ Len(messages) + InFlight("send") < cap
  /\ IF partnership_id = 0 \/ message_text = Undefined \/ message_text = ""
     THEN /\ resp' = [op |-> "send", status |-> 400, user |-> u, id |-> 0]
          /\ UNCHANGED reqs
     ELSE IF TextLength(message_text) > MaxMessageLength
     THEN /\ resp' = [op |-> "send", status |-> 400, user |-> u, id |-> 0]
          /\ UNCHANGED reqs
     ELSE /\ reqs' = [reqs EXCEPT ![s] =
                        [op |-> "send", pc |-> "lookup", user |-> u, id |-> 0,
                         partnership_id |-> partnership_id, message_text |-> message_text,
                         toUserId |-> Null]]
          /\ UNCHANGED resp
  /\ UNCHANGED <<habits, check_ins, ai_responses, today,
                 partnerships, messages, notifications, prompt>>

\* "Verify user is part of this partnership": the row when it is accepted
SendLookup(s) ==
  LET r == reqs[s]
      partnership ==
        IF r.partnership_id \in DOMAIN partnerships
           /\ partnerships[r.partnership_id].status = "accepted"
        THEN r.partnership_id ELSE 0
  IN
  /\ r.op = "send" /\ r.pc = "lookup"
  /\ IF partnership = 0
     THEN /\ resp' = [op |-> "send", status |-> 403, user |-> r.user, id |-> 0]
          /\ reqs' = [reqs EXCEPT ![s] = Idle]
     ELSE IF partnerships[partnership].requester_id # r.user
             /\ partnerships[partnership].receiver_id # r.user
     THEN /\ resp' = [op |-> "send", status |-> 403, user |-> r.user, id |-> 0]
          /\ reqs' = [reqs EXCEPT ![s] = Idle]
     ELSE /\ reqs' = [reqs EXCEPT ![s].pc = "insert",
                                  ![s].toUserId = partnerOf(partnerships[partnership], r.user)]
          /\ UNCHANGED resp
  /\ UNCHANGED <<habits, check_ins, ai_responses, today,
                 partnerships, messages, notifications, prompt>>

\* the insert of the message
SendInsert(s) ==
  LET r == reqs[s] IN
  /\ r.op = "send" /\ r.pc = "insert"
  /\ messages' = Append(messages,
                        [from_user_id |-> r.user, to_user_id |-> r.toUserId,
                         partnership_id |-> r.partnership_id, message_text |-> r.message_text])
  /\ reqs' = [reqs EXCEPT ![s].pc = "notify", ![s].id = Len(messages) + 1]
  /\ UNCHANGED <<habits, check_ins, ai_responses, today, resp,
                 partnerships, notifications, prompt>>

\* the notification for the recipient, and the response
SendNotify(s) ==
  LET r == reqs[s] IN
  /\ r.op = "send" /\ r.pc = "notify"
  /\ notifications' = Append(notifications,
                             [user_id |-> r.toUserId, type |-> "encouragement",
                              title |-> "New Encouragement"])
  /\ resp' = [op |-> "send", status |-> 201, user |-> r.user, id |-> r.id]
  /\ reqs' = [reqs EXCEPT ![s] = Idle]
  /\ UNCHANGED <<habits, check_ins, ai_responses, today, partnerships, messages, prompt>>

(* ------------------------------ the clock ------------------------------ *)
Tick ==
  /\ today < MaxDay
  /\ today' = today + 1
  /\ UNCHANGED <<habits, check_ins, ai_responses, reqs, resp, partnerships, messages, notifications, prompt>>

(* ------------------------------ Spec ----------------------------------- *)
(* Habit lifecycle from an empty store, within one calendar day: POST       *)
(* /api/habits on two sessions whose handlers interleave at every awaited   *)
(* store call, update, archive, and check-ins on one session.               *)
Next ==
  \/ \E u \in Users, hid \in 0..MaxHabits, b \in CheckInBodies :
       CheckInBegin("s1", u, hid, b.hasCompleted, b.completed, Undefined, Morning, MaxCheckIns)
  \/ CheckInLookup("s1")
  \/ CheckInWrite("s1")
  \/ CheckInAfter("s1", {FALSE})
  \/ \E s \in Sessions, b \in CreateBodies :
       HabitBegin(s, "u1", b.habit_name, b.category, b.start_date, MaxHabits)
  \/ \E s \in Sessions : HabitInsert(s)
  \/ \E u \in Users, id \in 1..MaxHabits, b \in UpdateBodies :
       UpdateHabit(u, id, b.habit_name, b.privacy_setting)
  \/ \E u \in Users, id \in 1..MaxHabits : ArchiveHabit(u, id)

Spec == Init /\ [][Next]_vars

(* ----------------------------- SpecRace -------------------------------- *)
(* Check-ins of one user's habit on two sessions whose handlers interleave  *)
(* at every awaited store call, the reporting operations of that habit,     *)
(* and the clock moving on.                                                 *)
FirstHabit ==
  [user_id |-> "u1", habit_name |-> "run", category |-> "Health", start_date |-> 1,
   privacy_setting |-> "partner-only", is_active |-> TRUE, archived_at |-> 0]

InitRace ==
  /\ habits = <<FirstHabit>>
  /\ check_ins = <<>>
  /\ ai_responses = <<>>
  /\ today = 1
  /\ reqs = [s \in Sessions |-> Idle]
  /\ resp = NoResp
  /\ NoPartnerData

NextRace ==
  \/ \E s \in Sessions, c \in BOOLEAN :
       CheckInBegin(s, "u1", 1, TRUE, c, Undefined, Morning, MaxRaceCheckIns)
  \/ \E s \in Sessions : CheckInLookup(s)
  \/ \E s \in Sessions : CheckInWrite(s)
  \/ \E s \in Sessions : CheckInAfter(s, {FALSE})
  \/ GetStreak("u1", 1)
  \/ GetOverview("u1", 1)
  \/ GetMonthly("u1", 1, 2023, 1)
  \/ Tick

SpecRace == InitRace /\ [][NextRace]_vars

(* ----------------------------- SpecHist -------------------------------- *)
(* The streak figures as functions of the stored history: the store holds   *)
(* any history of one habit over the last HistDays dates (no row, a         *)
(* completed row or a not-completed row per date, and possibly a second     *)
(* completed row on one date), and the two reporting operations are called. *)
DayStates == {"none", "done", "missed"}

RECURSIVE HistoryRows(_, _)
HistoryRows(w, d) ==
  IF d = 0 THEN <<>>
  ELSE IF w[d] = "none" THEN HistoryRows(w, d - 1)
  ELSE Append(HistoryRows(w, d - 1),
              [habit_id |-> 1, user_id |-> "u1", date |-> d,
               completed |-> (w[d] = "done"), check_in_time |-> Morning, notes |-> Null])

InitHist ==
  /\ habits = <<FirstHabit>>
  /\ \E w \in [1..HistDays -> DayStates], dup \in 0..HistDays :
       /\ dup # 0 => w[dup] = "done"
       /\ check_ins = IF dup = 0 THEN HistoryRows(w, HistDays)
                      ELSE Append(HistoryRows(w, HistDays),
                                  [habit_id |-> 1, user_id |-> "u1", date |-> dup,
                                   completed |-> TRUE, check_in_time |-> Morning, notes |-> Null])
  /\ ai_responses = <<>>
  /\ today = HistDays
  /\ reqs = [s \in Sessions |-> Idle]
  /\ resp = NoResp
  /\ NoPartnerData

NextHist ==
  \/ \E u \in Users : GetStreak(u, 1)
  \/ \E u \in Users, hid \in 0..1 : GetOverview(u, hid)

SpecHist == InitHist /\ [][NextHist]_vars

(* ----------------------------- SpecSeq --------------------------------- *)
(* Check-ins issued one after the other on a habit whose history is a run   *)
(* of completed days ending yesterday.                                      *)
RunRows(len, now) ==
  [k \in 1..len |-> [habit_id |-> 1, user_id |-> "u1", date |-> now - len + k - 1,
                     completed |-> TRUE, check_in_time |-> Morning, notes |-> Null]]

InitSeq ==
  /\ habits = <<FirstHabit>>
  /\ today = 1
  /\ \E len \in 0..MaxBacklog : check_ins = RunRows(len, 1)
  /\ ai_responses = <<>>
  /\ reqs = [s \in Sessions |-> Idle]
  /\ resp = NoResp
  /\ NoPartnerData

NextSeq ==
  \/ \E u \in Users, hid \in 0..1, b \in CheckInBodies, n \in NotesInputs :
       CheckInBegin("s1", u, hid, b.hasCompleted, b.completed, n, Morning, MaxBacklog + 2)
  \/ CheckInLookup("s1")
  \/ CheckInWrite("s1")
  \/ CheckInAfter("s1", AiOutcomes)

SpecSeq == InitSeq /\ [][NextSeq]_vars

(* ----------------------------- SpecMonth ------------------------------- *)
(* The monthly calendar as a function of the request, the habit's start     *)
(* date, the clock and the stored rows: the store holds up to MaxMonthRows  *)
(* rows of one habit on dates in February (two rows may share a date), and  *)
(* the calendar of any month of two years, one of them a leap year, is      *)
(* requested by the owner.                                                  *)
MaxMonthRows == 2
MonthYears == {2023, 2024}
MonthRowDates == {NewDate(2023, 1, 14), NewDate(2023, 1, 28), NewDate(2024, 1, 29)}
MonthStartDates == {NewDate(2023, 0, 1), NewDate(2024, 1, 10)}
MonthTodays == {NewDate(2023, 1, 20), NewDate(2024, 1, 29)}

InitMonth ==
  /\ \E sd \in MonthStartDates : habits = <<[FirstHabit EXCEPT !.start_date = sd]>>
  /\ \E n \in 0..MaxMonthRows, f \in [1..MaxMonthRows -> MonthRowDates \X BOOLEAN] :
       /\ \A k \in 1..(MaxMonthRows - 1) :
            f[k][1] < f[k + 1][1] \/ (f[k][1] = f[k + 1][1] /\ (f[k][2] => f[k + 1][2]))
       /\ check_ins = [k \in 1..n |->
                      [habit_id |-> 1, user_id |-> "u1", date |-> f[k][1],
                       completed |-> f[k][2], check_in_time |-> Morning, notes |-> Null]]
  /\ ai_responses = <<>>
  /\ today \in MonthTodays
  /\ reqs = [s \in Sessions |-> Idle]
  /\ resp = NoResp
  /\ NoPartnerData

NextMonth ==
  \E hid \in 0..1, year \in MonthYears, month \in 1..12 :
    GetMonthly("u1", hid, year, month)

SpecMonth == InitMonth /\ [][NextMonth]_vars

(* ----------------------------- SpecWeek -------------------------------- *)
(* The weekly statistics as functions of the stored rows.  The store holds  *)
(* either one row or none on each date of the week ending today, or up to   *)
(* MaxWeekRows rows on the day before the week, its first day, yesterday    *)
(* and today, with check-in times at midnight and around one o'clock; two   *)
(* rows may share a date.  Today is a Sunday or a Wednesday.                *)
MaxWeekRows == 3
WeekTodays == {NewDate(2023, 0, 15), NewDate(2023, 0, 18)}
WeekTimes == {0, 59, 60}
WeekRowOffsets == {7, 6, 1, 0}

WeekRowRank(o) == 10000 * (7 - o[1]) + (IF o[2] THEN 5000 ELSE 0) + o[3]

InitWeek ==
  /\ habits = <<FirstHabit>>
  /\ today \in WeekTodays
  /\ \/ \E w \in [1..7 -> DayStates] :
          check_ins = [k \in 1..Len(HistoryRows(w, 7)) |->
                         [HistoryRows(w, 7)[k] EXCEPT !.date = today - 7 + @]]
     \/ \E n \in 0..MaxWeekRows, f \in [1..MaxWeekRows -> WeekRowOffsets \X BOOLEAN \X WeekTimes] :
          /\ \A k \in 1..(MaxWeekRows - 1) : WeekRowRank(f[k]) <= WeekRowRank(f[k + 1])
          /\ check_ins = [k \in 1..n |->
                            [habit_id |-> 1, user_id |-> "u1", date |-> today - f[k][1],
                             completed |-> f[k][2], check_in_time |-> f[k][3], notes |-> Null]]
  /\ ai_responses = <<>>
  /\ reqs = [s \in Sessions |-> Idle]
  /\ resp = NoResp
  /\ NoPartnerData

NextWeek == \E hid \in 0..1 : GetWeekly("u1", hid)

SpecWeek == InitWeek /\ [][NextWeek]_vars

(* ------------------------------ SpecAi --------------------------------- *)
(* The two operations that call the text-generation service, with the       *)
(* service failing or not on each call: check-ins issued one after the      *)
(* other on a habit with a short run of completed days, and weekly insights *)
(* until the ai_responses table holds MaxAiResponses rows.                  *)
MaxAiBacklog == 2
MaxAiResponses == 2

InitAi ==
  /\ habits = <<FirstHabit>>
  /\ today = NewDate(2023, 0, 15)
  /\ \E len \in 0..MaxAiBacklog : check_ins = RunRows(len, today)
  /\ ai_responses = <<>>
  /\ reqs = [s \in Sessions |-> Idle]
  /\ resp = NoResp
  /\ NoPartnerData

NextAi ==
  \/ \E u \in Users, hid \in 0..1, b \in CheckInBodies :
       CheckInBegin("s1", u, hid, b.hasCompleted, b.completed, Undefined, Morning, MaxAiBacklog + 2)
  \/ CheckInLookup("s1")
  \/ CheckInWrite("s1")
  \/ CheckInAfter("s1", AiOutcomes)
  \/ \E u \in Users, hid \in 0..1 : WeeklyInsight(u, hid, AiOutcomes, MaxAiResponses)

SpecAi == InitAi /\ [][NextAi]_vars

(* ---------------------------- SpecAccess ------------------------------- *)
(* The reporting operations of a habit called by its owner, by another user *)
(* and for a habit that does not exist, over a short run of completed days. *)
\* month numbers of the path: in range, and just outside 1..12
MonthParams == {0, 1, 2, 13}

InitAccess ==
  /\ habits = <<FirstHabit>>
  /\ today = NewDate(2023, 0, 15)
  /\ \E len \in 0..MaxAiBacklog : check_ins = RunRows(len, today + 1)
  /\ ai_responses = <<>>
  /\ reqs = [s \in Sessions |-> Idle]
  /\ resp = NoResp
  /\ NoPartnerData

NextAccess ==
  \/ \E u \in Users, hid \in 1..MaxHabits : GetHistory(u, hid)
  \/ \E u \in Users, hid \in 1..MaxHabits : GetToday(u, hid)
  \/ \E u \in Users, hid \in 1..MaxHabits : GetStreak(u, hid)
  \/ \E u \in Users, hid \in 0..MaxHabits : GetOverview(u, hid)
  \/ \E u \in Users, hid \in 0..MaxHabits : GetWeekly(u, hid)
  \/ \E u \in Users, hid \in 0..MaxHabits, year \in MonthYears, month \in MonthParams :
       GetMonthly(u, hid, year, month)
  \/ \E u \in Users, hid \in 0..MaxHabits : GetMonthlyNaN(u, hid)

SpecAccess == InitAccess /\ [][NextAccess]_vars

(* ---------------------------- SpecPartner ------------------------------ *)
(* Partnership requests of two users to a third on one session, and accept, *)
(* decline and end of the requests on two sessions; the handlers interleave *)
(* at every awaited store call.                                             *)
MaxPartnerships == 2
PartnerRequests ==
  {[user |-> "u2", receiver_id |-> "u1"], [user |-> "u3", receiver_id |-> "u1"],
   [user |-> "u2", receiver_id |-> "u2"], [user |-> "u3", receiver_id |-> Undefined]}

NextPartner ==
  \/ \E b \in PartnerRequests :
       PartnerBegin("s1", b.user, b.receiver_id, Undefined, MaxPartnerships)
  \/ PartnerLookupActive("s1")
  \/ PartnerLookupPending("s1")
  \/ PartnerInsert("s1")
  \/ PartnerNotify("s1")
  \/ \E s \in Sessions, u \in {"u1", "u2"}, id \in 1..MaxPartnerships : AcceptBegin(s, u, id)
  \/ \E s \in Sessions : AcceptUpdate(s)
  \/ \E s \in Sessions : AcceptNotify(s)
  \/ \E s \in Sessions, u \in {"u1", "u2"}, id \in 1..MaxPartnerships : DeclineBegin(s, u, id)
  \/ \E s \in Sessions : DeclineUpdate(s)
  \/ \E s \in Sessions, u \in {"u1", "u2"}, id \in 1..MaxPartnerships : EndBegin(s, u, id)
  \/ \E s \in Sessions : EndUpdate(s)

SpecPartner == Init /\ [][NextPartner]_vars

(* ------------------------------ SpecMsg -------------------------------- *)
(* Messages in a partnership of u2 and u1 that is pending or accepted at    *)
(* the start: sends by either party and by an outsider on one session,      *)
(* accept, decline and end of the partnership on the other; the handlers    *)
(* interleave at every awaited store call.                                  *)
MaxMessages == 2

InitMsg ==
  /\ habits = <<>>
  /\ check_ins = <<>>
  /\ ai_responses = <<>>
  /\ today = 1
  /\ reqs = [s \in Sessions |-> Idle]
  /\ resp = NoResp
  /\ \E status \in {"pending", "accepted"} :
       partnerships = <<PartnershipRow("u2", "u1", Undefined, status)>>
  /\ messages = <<>>
  /\ notifications = <<>>
  /\ prompt = NoPrompt

NextMsg ==
  \/ \E u \in {"u1", "u2", "u3"}, id \in 0..2, text \in MessageTexts :
       SendBegin("s1", u, id, text, MaxMessages)
  \/ SendLookup("s1")
  \/ SendInsert("s1")
  \/ SendNotify("s1")
  \/ \E u \in {"u1", "u2"} : AcceptBegin("s2", u, 1)
  \/ AcceptUpdate("s2")
  \/ AcceptNotify("s2")
  \/ \E u \in {"u1", "u2"} : DeclineBegin("s2", u, 1)
  \/ DeclineUpdate("s2")
  \/ \E u \in {"u1", "u3"} : EndBegin("s2", u, 1)
  \/ EndUpdate("s2")

SpecMsg == InitMsg /\ [][NextMsg]_vars

(* --------------------------- SpecPartnerWeek --------------------------- *)
(* The partner comparison count of the weekly insight: u1 owns habit 1 and  *)
(* is in an accepted partnership with u2; u2 creates habits, checks in,     *)
(* archives and checks in again, one request after the other, and u1 asks   *)
(* for the weekly insight.                                                  *)
MaxPartnerHabits == 3
MaxPartnerCheckIns == 2
MaxPartnerInsights == 1

InitPartnerWeek ==
  /\ habits = <<FirstHabit>>
  /\ check_ins = <<>>
  /\ ai_responses = <<>>
  /\ today = NewDate(2023, 0, 15)
  /\ reqs = [s \in Sessions |-> Idle]
  /\ resp = NoResp
  /\ partnerships = <<PartnershipRow("u2", "u1", Undefined, "accepted")>>
  /\ messages = <<>>
  /\ notifications = <<>>
  /\ prompt = NoPrompt

NextPartnerWeek ==
  \/ HabitBegin("s1", "u2", "run", "Health", 0, MaxPartnerHabits)
  \/ HabitInsert("s1")
  \/ \E hid \in 2..MaxPartnerHabits : ArchiveHabit("u2", hid)
  \/ \E hid \in 2..MaxPartnerHabits, b \in CheckInBodies :
       CheckInBegin("s1", "u2", hid, b.hasCompleted, b.completed, Undefined, Morning,
                    MaxPartnerCheckIns)
  \/ CheckInLookup("s1")
  \/ CheckInWrite("s1")
  \/ CheckInAfter("s1", {FALSE})
  \/ WeeklyInsight("u1", 1, {FALSE}, MaxPartnerCheckIns + MaxPartnerInsights)

SpecPartnerWeek == InitPartnerWeek /\ [][NextPartnerWeek]_vars

(* ======================= properties of the streak figures ============== *)
\* at most one check_ins row per (habit, date)
UniquePerDate ==
  \A i, j \in DOMAIN check_ins :
    (check_ins[i].habit_id = check_ins[j].habit_id /\ check_ins[i].date = check_ins[j].date) => i = j

HasCompleted(h, d) == \E i \in DOMAIN check_ins :
  check_ins[i].habit_id = h /\ check_ins[i].date = d /\ check_ins[i].completed

\* the number of consecutive calendar days, ending today, that each have a completed row
DaysEndingToday(h) ==
  LET done == {check_ins[i].date : i \in {j \in DOMAIN check_ins :
                                            check_ins[j].habit_id = h /\ check_ins[j].completed}}
      gaps == {d \in (today - Len(check_ins))..today : d \notin done}
  IN today - (CHOOSE d \in gaps : \A e \in gaps : e <= d)

\* C1: with at most one row per date, the current streak reported by the streak
\* endpoint and by the analytics overview is the number of consecutive calendar days
\* ending today that each have a completed row; it is 0 when today has none.
C1_CurrentStreak ==
  (UniquePerDate /\ resp.op \in {"streak", "overview"} /\ resp.status = 200) =>
     /\ resp.current_streak = DaysEndingToday(resp.habit_id)
     /\ ~HasCompleted(resp.habit_id, today) => resp.current_streak = 0

C1_Witness ==
  /\ UniquePerDate
  /\ resp.op = "streak" /\ resp.status = 200 /\ resp.current_streak = 3
  /\ ~HasCompleted(1, today - 3) /\ HasCompleted(1, today - 4)

\* the dates of the completed rows of habit h, ascending, one entry per row
CompletedDates(h) ==
  LET rows == CHOOSE r \in OrderedByDate(check_ins, CompletedRowsOf(check_ins, h)) : TRUE
  IN [k \in 1..Len(rows) |-> check_ins[rows[k]].date]

\* the lengths of the runs of successive dates exactly one day apart
RunLengths(ds) ==
  {j - i + 1 : <<i, j>> \in {p \in (1..Len(ds)) \X (1..Len(ds)) :
                               p[1] <= p[2] /\ \A k \in p[1]..(p[2] - 1) : ds[k + 1] - ds[k] = 1}}

MaxOf(S) == IF S = {} THEN 0 ELSE CHOOSE m \in S : \A x \in S : x <= m

\* C2: the longest streak of GET /checkins/:habitId/streak is the maximum length of a
\* run of completed rows whose successive dates are one day apart, the final run
\* included; 0 without completed rows, 1 with a single one.
C2_LongestStreak ==
  (resp.op = "streak" /\ resp.status = 200) =>
     /\ resp.longest_streak = MaxOf(RunLengths(CompletedDates(resp.habit_id)))
     /\ Len(CompletedDates(resp.habit_id)) = 0 => resp.longest_streak = 0
     /\ Len(CompletedDates(resp.habit_id)) = 1 => resp.longest_streak = 1

\* a duplicate date restarts the run, and the final run is the longest one
C2_Witness ==
  /\ resp.op = "streak" /\ resp.status = 200 /\ resp.longest_streak = 3
  /\ ~UniquePerDate
  /\ HasCompleted(1, today) /\ HasCompleted(1, today - 1) /\ HasCompleted(1, today - 2)
  /\ Len(CompletedDates(1)) = 6

\* C3 (as claimed): the longest_streak of GET /analytics/overview equals the
\* longest_streak of GET /checkins/:habitId/streak for the same history.
C3_OverviewLongestAgrees ==
  (resp.op = "overview" /\ resp.status = 200) =>
     \A rows \in OrderedByDate(check_ins, CompletedRowsOf(check_ins, resp.habit_id)) :
        resp.longest_streak = streakLongest(check_ins, rows)

\* C4 (as claimed): every response that reports both figures has
\* longest streak >= current streak.
C4_LongestAtLeastCurrent ==
  (resp.op \in {"streak", "overview"} /\ resp.status = 200) =>
     resp.longest_streak >= resp.current_streak

(* ========================= properties of check-ins ===================== *)
RowsToday(store) == RowsOn(store, 1, today)

\* C5: a POST /checkins issued after an earlier one for the same habit and day has
\* completed leaves exactly one row for that (habit, date), carrying the payload's
\* completed value and notes (no notes stored as null); it updates the row the first
\* call created and inserts nothing.
C5_SecondCallUpdates ==
  [][(reqs["s1"].op = "checkin" /\ reqs["s1"].pc = "write") =>
       LET r == reqs["s1"]
           after == RowsOn(check_ins', r.habit_id, r.today)
       IN /\ Cardinality(after) = 1
          /\ \A i \in after :
               /\ check_ins'[i].completed = r.completed
               /\ check_ins'[i].notes = (IF r.notes \in {Undefined, ""} THEN Null ELSE r.notes)
          /\ RowsOn(check_ins, r.habit_id, r.today) # {} =>
               /\ Len(check_ins') = Len(check_ins)
               /\ after = RowsOn(check_ins, r.habit_id, r.today)
               /\ resp'.path = "update"]_vars

C5_Witness ==
  /\ resp.op = "checkin" /\ resp.status = 200 /\ resp.path = "update"
  /\ Cardinality(RowsToday(check_ins)) = 1
  /\ \A i \in RowsToday(check_ins) : check_ins[i].notes = "felt good" /\ check_ins[i].completed

\* C6 (as claimed): the store holds at most one check-in row per (habit, date).
C6_OneRowPerHabitDate == UniquePerDate

\* C7 (as claimed): each user owns at most one habit with is_active = true.
C7_OneActiveHabit == \A u \in Users : Cardinality(ActiveHabitsOf(habits, u)) <= 1

\* C8 (as claimed): once a habit is archived, no check-in row of that habit is created
\* or changed.
C8_ArchivedHistoryReadOnly ==
  [][\A h \in DOMAIN habits :
       ~habits[h].is_active =>
          /\ RowsOf(check_ins', h) = RowsOf(check_ins, h)
          /\ \A i \in RowsOf(check_ins, h) : check_ins'[i] = check_ins[i]]_vars

\* C9: a habit is created with is_active = true, the archive operation sets
\* is_active = false and archived_at, habits are never removed, and a habit whose
\* is_active is false never has is_active true again.
C9_ArchiveTerminal ==
  [][/\ \A h \in DOMAIN habits : h \in DOMAIN habits' /\ (~habits[h].is_active => ~habits'[h].is_active)
     /\ \A h \in DOMAIN habits' \ DOMAIN habits : habits'[h].is_active /\ habits'[h].archived_at = 0
     /\ (resp'.op = "archiveHabit" /\ resp'.status = 200 /\ (resp' # resp \/ habits' # habits)) =>
           /\ ~habits'[resp'.id].is_active
           /\ habits'[resp'.id].archived_at = today]_vars

\* an archived habit was updated afterwards and a check-in was stored for it
C9_Witness ==
  /\ resp.op = "updateHabit" /\ resp.status = 200
  /\ ~habits[resp.id].is_active /\ habits[resp.id].archived_at # 0
  /\ habits[resp.id].privacy_setting = "private"
  /\ RowsOf(check_ins, resp.id) # {}

\* C10: the check-in that stores a new row computes the current streak N and reports
\* the milestone "N-day" exactly when the row is completed and N is one of
\* 7, 14, 30, 50, 100; every other value gives no milestone.
C10_Milestone ==
  [][(reqs["s1"].op = "checkin" /\ reqs["s1"].pc = "after") =>
       /\ resp'.streak = (IF reqs["s1"].completed THEN DaysEndingToday(1) ELSE 0)
       /\ resp'.milestone = (IF resp'.streak \in {7, 14, 30, 50, 100} THEN resp'.streak ELSE 0)
       /\ ai_responses'[Len(ai_responses')].milestone = resp'.milestone]_vars

C10_Witness ==
  /\ resp.op = "checkin" /\ resp.path = "insert" /\ resp.streak = 100 /\ resp.milestone = 100

C10_WitnessNone ==
  /\ resp.op = "checkin" /\ resp.path = "insert" /\ resp.streak = 8 /\ resp.milestone = 0

(* ======================= properties of the analytics =================== *)
MonthlyOk == resp.op = "monthly" /\ resp.status = 200

\* C11: the monthly calendar of a valid (year, month) holds every date of that
\* month, from its first day to its last, exactly once; each date carries exactly
\* one of the statuses completed, missed, future; and every date before the
\* habit's start date is future.
C11_CalendarCoversMonth ==
  (MonthlyOk /\ resp.month \in 1..12) =>
    LET keys == DOMAIN resp.calendar
        inMonth(n) == getFullYear(n) = resp.year /\ getMonth1(n) = resp.month
        lo == CHOOSE d \in keys : \A e \in keys : d <= e
        hi == CHOOSE d \in keys : \A e \in keys : d >= e
    IN /\ keys # {}
       /\ \A d \in keys : inMonth(d)
       /\ ~inMonth(lo - 1) /\ ~inMonth(hi + 1)
       /\ hi - lo + 1 = Cardinality(keys)
       /\ resp.total_days = Cardinality(keys)
       /\ \A d \in keys : resp.calendar[d].status \in {"completed", "missed", "future"}
       /\ resp.habit_id \in DOMAIN habits =>
            \A d \in keys : d < habits[resp.habit_id].start_date => resp.calendar[d].status = "future"

\* the calendar of February of a leap year, with a day before the habit's start
\* and a completed day after it
C11_Witness ==
  /\ MonthlyOk /\ resp.habit_id = 1 /\ resp.year = 2024 /\ resp.month = 2
  /\ Cardinality(DOMAIN resp.calendar) = 29
  /\ \E d \in DOMAIN resp.calendar : d < habits[1].start_date
  /\ \E d \in DOMAIN resp.calendar : resp.calendar[d].status = "completed"

\* C12: a date of the monthly calendar is future if it lies before the habit's start
\* date or after today; otherwise completed if a row with completed = true exists
\* on that date; otherwise missed.
C12_StatusRule ==
  [][(resp'.op = "monthly" /\ resp'.status = 200 /\ resp'.habit_id \in DOMAIN habits
      /\ UNCHANGED <<habits, check_ins, today, reqs>>) =>
       \A d \in DOMAIN resp'.calendar :
         resp'.calendar[d].status =
           IF d < habits[resp'.habit_id].start_date \/ d > today THEN "future"
           ELSE IF HasCompleted(resp'.habit_id, d) THEN "completed"
           ELSE "missed"]_vars

WeeklyOk == resp.op = "weekly" /\ resp.status = 200

\* the weekday name of a calendar date (day number 1 is a Sunday)
WeekdayName(d) ==
  <<"Sunday", "Monday", "Tuesday", "Wednesday", "Thursday", "Friday", "Saturday">>[((d - 1) % 7) + 1]

WindowRows(h) == {i \in DOMAIN check_ins : check_ins[i].habit_id = h
                                           /\ check_ins[i].date \in (today - 6)..today}

\* C13: the weekly statistics count every row of the window under the weekday name
\* of its own calendar date; a week with one row per day, completed only on its
\* Monday, Tuesday and Wednesday, reports best_day "Monday" and consistency 43.
C13_CountedUnderOwnWeekday ==
  WeeklyOk =>
    /\ \A name \in DOMAIN resp.day_stats :
         /\ resp.day_stats[name].total =
              Cardinality({i \in WindowRows(resp.habit_id) : WeekdayName(check_ins[i].date) = name})
         /\ resp.day_stats[name].completed =
              Cardinality({i \in WindowRows(resp.habit_id) :
                             WeekdayName(check_ins[i].date) = name /\ check_ins[i].completed})
    /\ ((\A d \in (today - 6)..today :
           \E i \in WindowRows(resp.habit_id) :
             /\ check_ins[i].date = d
             /\ check_ins[i].completed = (WeekdayName(d) \in {"Monday", "Tuesday", "Wednesday"}))
        /\ Cardinality(WindowRows(resp.habit_id)) = 7)
         => (resp.best_day = "Monday" /\ resp.consistency_score = 43)

\* completed/total of a weekday of the response as a fraction, 0/1 when total is 0
RatioNum(name) == resp.day_stats[name].completed
RatioDen(name) == IF resp.day_stats[name].total = 0 THEN 1 ELSE resp.day_stats[name].total
RatioLess(a, b) == RatioNum(a) * RatioDen(b) < RatioNum(b) * RatioDen(a)
MondayFirst == <<"Monday", "Tuesday", "Wednesday", "Thursday", "Friday", "Saturday", "Sunday">>
PlaceOf(name) == CHOOSE k \in 1..7 : MondayFirst[k] = name

\* C14: given the (completed, total) pairs of the weekdays, best_day is the weekday
\* with the highest ratio completed/total (0 when total is 0), the first in the
\* order Monday..Sunday among equals; a weekday with no observation is never
\* chosen when some weekday has a completion.
C14_BestDay ==
  WeeklyOk =>
    /\ \A name \in DOMAIN resp.day_stats :
         /\ ~RatioLess(resp.best_day, name)
         /\ PlaceOf(name) < PlaceOf(resp.best_day) => RatioLess(name, resp.best_day)
    /\ (\E name \in DOMAIN resp.day_stats : resp.day_stats[name].completed >= 1)
         => resp.day_stats[resp.best_day].total > 0

\* two weekdays share the highest ratio, a weekday earlier in the order has an
\* observation and a lower ratio, and the earlier of the two is reported
C14_Witness ==
  /\ WeeklyOk
  /\ \E a, b, c \in DOMAIN resp.day_stats :
       /\ a = resp.best_day /\ b # a
       /\ ~RatioLess(a, b) /\ ~RatioLess(b, a)
       /\ RatioLess(c, a) /\ resp.day_stats[c].total > 0 /\ PlaceOf(c) < PlaceOf(a)

\* C15: consistency_score is round(100 * completed / total) over the rows of the
\* window, 0 when there is no row, and always within 0..100.
C15_ConsistencyScore ==
  WeeklyOk =>
    LET total == Cardinality(WindowRows(resp.habit_id))
        completed == Cardinality({i \in WindowRows(resp.habit_id) : check_ins[i].completed})
        score == resp.consistency_score
    IN /\ score \in 0..100
       /\ total = 0 => score = 0
       /\ total > 0 => /\ 2 * total * score <= 200 * completed + total
                       /\ 200 * completed + total < 2 * total * (score + 1)

\* two completed rows out of three: 66.67 rounds to 67
C15_Witness ==
  /\ WeeklyOk /\ resp.consistency_score = 67
  /\ Cardinality(WindowRows(resp.habit_id)) = 3

\* C16: the weekly average check-in time is the mean, in minutes, of the times of
\* the rows with completed = true; it is absent when there is no such row and
\* present whenever there is one, whatever the times (midnight included).
C16_AverageTime ==
  WeeklyOk =>
    LET done == {i \in WindowRows(resp.habit_id) : check_ins[i].completed}
        avg == resp.average_checkin_time
    IN /\ avg.present <=> done # {}
       /\ avg.present =>
            \E sum \in 0..(24 * 60 * Cardinality(done)) :
              /\ sum = checkInTimeSum(check_ins, done)
              /\ 2 * Cardinality(done) * (60 * avg.hours + avg.mins) <= 2 * sum + Cardinality(done)
              /\ 2 * sum + Cardinality(done) < 2 * Cardinality(done) * (60 * avg.hours + avg.mins + 1)

\* C17: the last-seven-days grid of the streak response has seven booleans, oldest
\* first, and entry i is true exactly when a row with completed = true exists for
\* the date today - 6 + i (i = 0..6); a date without a row and a date with a
\* not-completed row both give false.
C17_LastSevenDays ==
  [][(resp'.op = "streak" /\ resp'.status = 200
      /\ UNCHANGED <<habits, check_ins, today, reqs>>) =>
       /\ Len(resp'.last_seven_days) = 7
       /\ \A i \in 0..6 :
            resp'.last_seven_days[i + 1] = HasCompleted(resp'.habit_id, today - 6 + i)]_vars

(* ======================= properties of the AI calls ==================== *)
FallbackText == "fallback text"

\* the step that answers a check-in after its insert
AfterStep(s) == reqs[s].op = "checkin" /\ reqs[s].pc = "after" /\ reqs'[s] = Idle

\* the response returns the row the request has inserted
ReturnsRecord(s) ==
  /\ resp'.op = "checkin" /\ resp'.status = 200
  /\ resp'.row \in DOMAIN check_ins'
  /\ check_ins'[resp'.row].habit_id = reqs[s].habit_id
  /\ check_ins'[resp'.row].date = reqs[s].today
  /\ check_ins'[resp'.row].completed = reqs[s].completed

\* C18: whatever the text-generation service does, failing included, the enclosing
\* request does not fail: the check-in is stored and returned with success, and the
\* weekly insight of an owned habit returns success.
C18_AiFailureNeverFailsRequest ==
  [][/\ \A s \in Sessions : AfterStep(s) => ReturnsRecord(s)
     /\ (resp'.op = "insight" /\ UNCHANGED <<habits, check_ins, today, reqs>>
         /\ HabitOfUser(habits, resp'.habit_id, resp'.user) # 0)
          => resp'.status = 200]_vars

\* the service has failed in a check-in and again in the weekly insight that followed
C18_Witness ==
  /\ resp.op = "insight" /\ resp.status = 200 /\ resp.message = FallbackText
  /\ \E k \in DOMAIN ai_responses :
       /\ ai_responses[k].response_type \in {"post-checkin", "streak-break"}
       /\ ai_responses[k].ai_message = FallbackText
       /\ \E i \in DOMAIN check_ins : check_ins[i].date = today

\* C19 as stated: when the service fails during a check-in, the response carries no
\* ai_encouragement / ai_message and no AI response text is stored, while the
\* record is returned.  The fallback message exists only when the service has failed.
C19_OmitsTextOnFailure ==
  [][\A s \in Sessions : AfterStep(s) =>
       /\ ReturnsRecord(s)
       /\ resp'.ai # FallbackText
       /\ \A k \in DOMAIN ai_responses' :
            ai_responses'[k].ai_message = FallbackText => k \in DOMAIN ai_responses]_vars

\* C19 amended: a check-in that inserts a row always carries a text, the service's
\* or callGemini's fallback message when the service has failed, in ai_encouragement
\* (completed) or ai_message (not completed), and stores that text as one new
\* ai_responses row; the record is returned.
C19_FallbackAttachedAndStored ==
  [][\A s \in Sessions : AfterStep(s) =>
       /\ ReturnsRecord(s)
       /\ resp'.ai \in {"generated text", FallbackText}
       /\ Len(ai_responses') = Len(ai_responses) + 1
       /\ ai_responses'[Len(ai_responses')].ai_message = resp'.ai
       /\ ai_responses'[Len(ai_responses')].response_type =
            IF reqs[s].completed THEN "post-checkin" ELSE "streak-break"]_vars

\* a not-completed check-in answered with the fallback message, stored as a
\* streak-break response
C19_Witness ==
  /\ resp.op = "checkin" /\ resp.status = 200 /\ resp.path = "insert"
  /\ resp.ai = FallbackText
  /\ ai_responses # <<>>
  /\ ai_responses[Len(ai_responses)].ai_message = FallbackText
  /\ ai_responses[Len(ai_responses)].response_type = "streak-break"

(* ======================= properties of the access checks =============== *)
HabitScoped == {"history", "today", "streak", "overview", "weekly", "monthly"}

\* C20: every habit-scoped operation (history, today's check-in, streak, overview,
\* weekly statistics, monthly calendar) called by a user for a habit that does not
\* exist or belongs to another user ends in NotFound, and so returns nothing that
\* depends on the rows of that habit.
C20_ForeignHabitNotFound ==
  (resp.op \in HabitScoped /\ resp.habit_id # 0
   /\ HabitOfUser(habits, resp.habit_id, resp.user) = 0)
    => resp.status = 404

\* C24: the weekly average check-in time, when present, is a valid H:MM time of
\* day: H in 0..23 and MM in 00..59 (e.g. for check-ins at 0:59 and 1:00).
C24_AverageTimeIsTimeOfDay ==
  (WeeklyOk /\ resp.average_checkin_time.present) =>
    /\ resp.average_checkin_time.hours \in 0..23
    /\ resp.average_checkin_time.mins \in 0..59

\* C25: the monthly statistics: total_days is the number of days of the requested
\* month (future days included), completed_days the number of days tagged
\* completed, success_rate is completed_days / total_days * 100 rounded to two
\* decimals (held in hundredths); completed_days never exceeds total_days and the
\* rate lies in 0..100.
C25_MonthStats ==
  (MonthlyOk /\ resp.month \in 1..12) =>
    LET tagged == {d \in DOMAIN resp.calendar : resp.calendar[d].status = "completed"}
        total == resp.total_days
    IN /\ total = DaysInMonth(resp.year, resp.month)
       /\ resp.completed_days = Cardinality(tagged)
       /\ 2 * total * resp.success_rate <= 2 * 10000 * resp.completed_days + total
       /\ 2 * 10000 * resp.completed_days + total < 2 * total * (resp.success_rate + 1)
       /\ resp.completed_days <= total
       /\ resp.success_rate \in 0..10000

\* a month with a completed day and days after today: 1 of 28 days is 3.57 percent
C25_Witness ==
  /\ MonthlyOk /\ resp.month \in 1..12
  /\ resp.total_days = 28 /\ resp.completed_days = 1 /\ resp.success_rate = 357
  /\ \E d \in DOMAIN resp.calendar : d > today /\ resp.calendar[d].status = "future"
  /\ \E d \in DOMAIN resp.calendar : d <= today

\* C21: a monthly request whose month is outside 1..12, or whose year or month is
\* not a number, is answered with status 400 and never with a calendar.
C21_BadMonthRejected ==
  (resp.op = "monthly" /\ resp.habit_id # 0 /\ (~resp.numeric \/ resp.month \notin 1..12)) =>
    resp.status = 400

\* the date of the week ending today that falls on a weekday, and its ratio
\* (each weekday occurs once in a 7-day window, so the ratio is 1 or 0)
WindowDateOf(name) == CHOOSE d \in (today - 6)..today : WeekdayName(d) = name
WindowRatio(h, name) == IF HasCompleted(h, WindowDateOf(name)) THEN 1 ELSE 0

\* C23: the best day of a weekly insight is the first weekday, in the order
\* Monday..Sunday, among those with the highest ratio over the 7-day window, and
\* the worst day is the first weekday in that order among those with the lowest
\* ratio, whichever weekday the window starts on.
C23_InsightDays ==
  [][(resp'.op = "insight" /\ resp'.status \in {200, 500}
      /\ UNCHANGED <<habits, check_ins, today, reqs>>) =>
       LET h == prompt'.habit_id
           best == prompt'.bestDay
           worst == prompt'.worstDay
       IN \A k \in 1..7 :
            /\ WindowRatio(h, MondayFirst[k]) <= WindowRatio(h, best)
            /\ WindowRatio(h, MondayFirst[k]) >= WindowRatio(h, worst)
            /\ k < PlaceOf(best) => WindowRatio(h, MondayFirst[k]) < WindowRatio(h, best)
            /\ k < PlaceOf(worst) => WindowRatio(h, MondayFirst[k]) > WindowRatio(h, worst)]_vars

\* the number of consecutive calendar days, ending yesterday, that each have a
\* completed row
DaysEndingYesterday(h) ==
  LET done == {check_ins[i].date : i \in {j \in DOMAIN check_ins :
                                            check_ins[j].habit_id = h /\ check_ins[j].completed}}
      gaps == {d \in (today - 1 - Len(check_ins))..(today - 1) : d \notin done}
  IN (today - 1) - (CHOOSE d \in gaps : \A e \in gaps : e <= d)

\* C27: when a new check-in is created with completed = false, the broken-streak
\* length handed to the streak-break support message, and stored as brokenStreak
\* with the message, is the number of consecutive completed days ending yesterday.
C27_BrokenStreakLength ==
  [][(reqs["s1"].op = "checkin" /\ reqs["s1"].pc = "after" /\ ~reqs["s1"].completed
      /\ reqs'["s1"] = Idle) =>
       /\ prompt'.type = "streak-break"
       /\ prompt'.brokenStreakLength = DaysEndingYesterday(reqs["s1"].habit_id)
       /\ Len(ai_responses') = Len(ai_responses) + 1
       /\ ai_responses'[Len(ai_responses')].response_type = "streak-break"
       /\ ai_responses'[Len(ai_responses')].streak = DaysEndingYesterday(reqs["s1"].habit_id)]_vars

\* C28: every POST /api/checkins that leaves today's record with completed = true
\* answers with the streak and its milestone computed and an encouragement text
\* attached, on the update path as on the insert path.
C28_CompletedAlwaysEncouraged ==
  (resp.op = "checkin" /\ resp.status = 200 /\ reqs["s1"] = Idle
   /\ check_ins[resp.row].completed) =>
     /\ resp.streak = DaysEndingToday(check_ins[resp.row].habit_id)
     /\ resp.milestone = milestoneOf(resp.streak)
     /\ resp.ai # Null

(* ======================= properties of the partnerships ================ *)
PartnerUsers == {"u1", "u2", "u3"}

\* C22: after any sequence of partnership requests, accepts, declines and ends,
\* every user is a party of at most one partnership with status accepted.
C22_AtMostOneAccepted ==
  \A u \in PartnerUsers : Cardinality(AcceptedOf(partnerships, u)) <= 1

\* the changes of status the life cycle of a partnership allows
StatusSteps ==
  {<<"pending", "accepted">>, <<"pending", "declined">>, <<"accepted", "ended">>}

\* C26: under any interleaving of accept, decline and end on one partnership its
\* status only changes pending -> accepted, pending -> declined and accepted ->
\* ended (declined and ended are final, accepted never becomes declined), and a
\* 'Partnership Accepted!' notification is only sent for a partnership that is
\* accepted, and stays so until it is ended.
C26_StatusLifeCycle ==
  [][/\ \A i \in DOMAIN partnerships :
          \/ partnerships'[i].status = partnerships[i].status
          \/ <<partnerships[i].status, partnerships'[i].status>> \in StatusSteps
     /\ \A s \in Sessions :
          (reqs[s].op = "accept" /\ reqs[s].pc = "notify" /\ reqs'[s] = Idle) =>
            partnerships'[reqs[s].id].status \in {"accepted", "ended"}]_vars

(* ======================= properties of the messages ==================== *)
\* the notifications of a kind addressed to a user
NotificationsFor(u, title) ==
  Cardinality({i \in DOMAIN notifications :
                 notifications[i].user_id = u /\ notifications[i].title = title})

MessagesTo(u) == Cardinality({i \in DOMAIN messages : messages[i].to_user_id = u})

\* C30: a message is stored only when, at the time it is stored, its sender is a
\* party of the named partnership and that partnership is accepted (never for a
\* pending, declined or ended one, under any interleaving of send and end); its
\* recipient is the other party, and exactly one notification is created for the
\* recipient (the one of a send in progress is still to come).
C30_MessageOnlyWhileAccepted ==
  [][/\ Len(messages') = Len(messages) + 1 =>
          LET m == messages'[Len(messages')]
              p == partnerships[m.partnership_id]
          IN /\ p.status = "accepted"
             /\ m.from_user_id \in {p.requester_id, p.receiver_id}
             /\ m.to_user_id = partnerOf(p, m.from_user_id)
             /\ m.to_user_id # m.from_user_id
     /\ \A u \in PartnerUsers :
          NotificationsFor(u, "New Encouragement")' =
            MessagesTo(u)' - Cardinality({s \in Sessions :
                                            /\ reqs'[s].op = "send" /\ reqs'[s].pc = "notify"
                                            /\ reqs'[s].toUserId = u})]_vars

\* the days of the week ending today on which a user has a completed row
DaysCompletedBy(u) ==
  {d \in (today - 6)..today :
     \E i \in DOMAIN check_ins :
       check_ins[i].user_id = u /\ check_ins[i].date = d /\ check_ins[i].completed}

\* C29: the partner comparison count of a weekly insight is the number of days of
\* the 7-day window on which the partner completed their habit, and so lies in
\* 0..7, whatever the partner did before (check in, archive, create a habit,
\* check in again).
C29_PartnerCountIsDays ==
  [][(resp'.op = "insight" /\ resp'.status \in {200, 500}
      /\ UNCHANGED <<habits, check_ins, today, reqs, partnerships>>
      /\ Cardinality(AcceptedOf(partnerships, resp'.user)) = 1) =>
       LET p == partnerships[CHOOSE i \in AcceptedOf(partnerships, resp'.user) : TRUE]
       IN /\ prompt'.partnerCheckIns = Cardinality(DaysCompletedBy(partnerOf(p, resp'.user)))
          /\ prompt'.partnerCheckIns \in 0..7]_vars

====
